---- MODULE Spec2Model ----
(***************************************************************************)
(* State-machine model of stock_advisor.py: the SQLite store               *)
(* (init_stock_database, save_stock_advice), the per-symbol pipeline of    *)
(* run_analysis (get_stock_data, get_news_headlines, get_fundamental_data, *)
(* get_ai_advice, print_advice, save_stock_advice) and the scheduler loop  *)
(* of __main__ (schedule.every().day.at(..).do(run_analysis), the start-up *)
(* call, and while True: schedule.run_pending()).                          *)
(*                                                                         *)
(* External collaborators (pykrx, the news page, the completion API, the   *)
(* SQLite insert, the wall clock) are nondeterministic inputs of the       *)
(* actions.  A Python exception that leaves run_analysis terminates the    *)
(* process: neither line 331 nor schedule.run_pending catches it.          *)
(*                                                                         *)
(* Spec is the whole program.  SpecPass is the start-up pass under every   *)
(* external outcome; SpecSched is the scheduler loop over several days     *)
(* under the outcomes of a pass the scheduler can tell apart.              *)
(***************************************************************************)
EXTENDS Integers, Sequences, FiniteSets, TLC

VARIABLES
    pc,        \* position of the main thread: start, running, pending, idle, crashed
    depth,     \* number of run_analysis invocations in progress
    cur,       \* what started the pass in progress: "startup", a job, or "none"
    queue,     \* runnable jobs of the current run_pending call still to run
    idx,       \* position of the for loop of run_analysis in stocks_to_analyze
    now,       \* wall clock, minutes since midnight of day 0
    next_run,  \* schedule's Job.next_run of the two daily jobs
    db,        \* stock_advisor.db: whether the table exists, and its rows
    last,      \* locals of the loop iteration executed most recently
    calls,     \* completion calls made per watchlist entry in the pass in progress
    passBase,  \* number of rows in the table when the pass in progress started
    arrived,   \* per job: arrivals of its time of day since registration
    started,   \* per job: passes started by it
    settled    \* per job: value of arrived when it was last started or rescheduled

vars == <<pc, depth, cur, queue, idx, now, next_run, db, last, calls,
          passBase, arrived, started, settled>>

-----------------------------------------------------------------------------
(* Bounds of the model *)

\* days the wall clock runs
MaxDays == 2
\* rows up to which the store is explored: the loop of run_analysis is
\* followed while the table holds fewer rows
MaxRows == 5
\* distance of the sampled closing prices from the average buy price
PriceGap == 10

-----------------------------------------------------------------------------
(* Values *)

None == "None"

Day == 24 * 60
At0850 == 8 * 60 + 50
At1500 == 15 * 60

Jobs == {"08:50", "15:00"}
at_time(j) == IF j = "08:50" THEN At0850 ELSE At1500

\* stocks_to_analyze; the goal text is reduced to the constraint it states
stocks_to_analyze ==
    << [name |-> "Hanwha Ocean", ticker |-> "042660", avg_buy_price |-> 132800,
        goal |-> "sell at or above the buy price"],
       [name |-> "MOADATA", ticker |-> "288980", avg_buy_price |-> 2530,
        goal |-> "sell at or above the buy price"],
       [name |-> "TIGER US S&P500", ticker |-> "360750", avg_buy_price |-> 0,
        goal |-> "raise cash at a market high"] >>

NumStocks == Len(stocks_to_analyze)

\* whether a goal text states the 'not below the buy price' constraint
GoalProtectsCost(goal) == goal = "sell at or above the buy price"

Keys == {"decision", "confidence", "analysis_summary", "action_plan"}
Decisions == {"SELL NOW", "HOLD"}

\* a JSON object of the completion API with the keys K
Object(K, d) ==
    [k \in K |-> CASE k = "decision" -> d
                   [] k = "confidence" -> "Medium"
                   [] k = "analysis_summary" -> "summary"
                   [] OTHER -> "plan"]

\* content of the completion call's outcome
Responses ==
    { [kind |-> "error", obj |-> <<>>],     \* the call raises
      [kind |-> "text", obj |-> <<>>] }     \* content is not JSON
    \cup { [kind |-> "json", obj |-> Object(K, d)] :
             K \in { {}, {"decision"}, Keys \ {"action_plan"}, Keys },
             d \in Decisions }

\* outcomes of stock.get_market_ohlcv_by_date and of the ticker-name lookup
MarketFailures ==
    { "raise",            \* upstream raises an Exception
      "emptydata",        \* upstream raises EmptyDataError, name lookup works
      "emptydata_noname", \* upstream raises EmptyDataError, name lookup raises
      "empty",            \* empty frame
      "noclose" }         \* frame without the close column

\* shapes of a frame that has its close column
MarketFrames ==
    { "bars",             \* the date column holds datetimes
      "bars_nodate" }     \* no date column, or one that holds no datetimes

Prices(e) == { p \in {e.avg_buy_price - PriceGap, e.avg_buy_price + PriceGap} : p > 0 }

MarketOutcomes(e) ==
    { [kind |-> k, close |-> 0] : k \in MarketFailures }
    \cup { [kind |-> k, close |-> p] : k \in MarketFrames, p \in Prices(e) }

\* outcomes of the request for the news page
FetchOutcomes == {"ok", "fail"}

\* outcomes of the pykrx fundamentals lookup: a snapshot of floats, a
\* snapshot holding numpy integers (which json.dumps rejects), an error
FundamentalOutcomes == {"ok", "ok_int64", "fail"}

-----------------------------------------------------------------------------
(* Persistence store *)

MutInitDropsTable(d) == [exists |-> TRUE, rows |-> <<>>]

\* CREATE TABLE IF NOT EXISTS stock_advice
init_stock_database(d) ==
    IF d.exists THEN d ELSE [exists |-> TRUE, rows |-> <<>>]

\* dict.get: None for a missing key
Get(obj, k) == IF k \in DOMAIN obj THEN obj[k] ELSE None

\* Python truth value of get_ai_advice's result: None and {} are false
Truthy(advice) == ~advice.none /\ DOMAIN advice.obj # {}

\* the row of the INSERT; the columns timestamp and created_at, which hold
\* the wall clock of the insert and are read nowhere in the program, are
\* left out
Row(d, name, ticker, price, advice) ==
    [id |-> Len(d.rows) + 1, stock_name |-> name, ticker |-> ticker,
     decision |-> Get(advice.obj, "decision"),
     confidence |-> Get(advice.obj, "confidence"),
     analysis_summary |-> Get(advice.obj, "analysis_summary"),
     action_plan |-> Get(advice.obj, "action_plan"),
     current_price |-> price]

MutSaveTwice(d, name, ticker, price, advice, ins) ==
    IF ~Truthy(advice) \/ ins # "ok" \/ ~d.exists THEN d
    ELSE LET d1 == [d EXCEPT !.rows = Append(@, Row(d, name, ticker, price, advice))]
         IN [d1 EXCEPT !.rows = Append(@, Row(d1, name, ticker, price, advice))]

MutSaveSwapsColumns(d, name, ticker, price, advice, ins) ==
    IF ~Truthy(advice) \/ ins # "ok" \/ ~d.exists THEN d
    ELSE [d EXCEPT !.rows = Append(@,
            [Row(d, name, ticker, price, advice) EXCEPT
                !.decision = Get(advice.obj, "confidence"),
                !.confidence = Get(advice.obj, "decision")])]

\* save_stock_advice: one INSERT; a failing INSERT is caught and logged
save_stock_advice(d, name, ticker, price, advice, ins) ==
    IF ~Truthy(advice) THEN d
    ELSE IF ins = "ok" /\ d.exists
         THEN [d EXCEPT !.rows = Append(@, Row(d, name, ticker, price, advice))]
         ELSE d

-----------------------------------------------------------------------------
(* Fetchers *)

MutNewsErrorEscapes(outcome) ==
    IF outcome = "ok" THEN [raised |-> FALSE, headlines |-> <<"headline">>]
    ELSE [raised |-> TRUE, headlines |-> <<>>]

\* get_news_headlines: the headlines, or [] on any error (try/except, line 80)
get_news_headlines(outcome) ==
    IF outcome = "ok" THEN [raised |-> FALSE, headlines |-> <<"headline">>]
    ELSE [raised |-> FALSE, headlines |-> <<>>]

\* get_fundamental_data: the snapshot, or None on any error (line 106)
get_fundamental_data(outcome) ==
    CASE outcome = "ok" -> [raised |-> FALSE, data |-> "snapshot"]
      [] outcome = "ok_int64" -> [raised |-> FALSE, data |-> "snapshot_int64"]
      [] OTHER -> [raised |-> FALSE, data |-> None]

\* add_technical_indicators: KeyError when the close column is missing
add_technical_indicators(md) ==
    IF md.kind = "noclose" THEN "KeyError" ELSE "ok"

\* get_stock_data: a frame, None, or an exception that escapes (the
\* EmptyDataError handler calls get_market_ticker_name unguarded, line 150)
NoFrame(kind) == [kind |-> kind, empty |-> TRUE, close |-> 0, dated |-> FALSE]

get_stock_data(md) ==
    CASE md.kind = "raise" -> NoFrame("None")
      [] md.kind = "emptydata" -> NoFrame("None")
      [] md.kind = "emptydata_noname" -> NoFrame("raise")
      [] md.kind = "empty" -> NoFrame("None")
      [] add_technical_indicators(md) = "KeyError" -> NoFrame("None")
      [] OTHER -> [kind |-> "frame", empty |-> FALSE, close |-> md.close,
                   dated |-> md.kind = "bars"]

NoAdvice == [none |-> TRUE, obj |-> <<>>]

\* get_ai_advice.  Lines 163-209 run outside the try: stock_data['date'].dt
\* raises for a frame without a datetime date column (line 163), json.dumps
\* raises for a snapshot it cannot serialise (line 205), and the exception
\* leaves get_ai_advice before the completion is requested.  Lines 211-227:
\* json.loads of the response content, None on any exception.
get_ai_advice(stock_name, ticker, goal, avg_buy_price, stock_data, news, fundamentals, resp) ==
    IF ~stock_data.dated \/ fundamentals = "snapshot_int64"
    THEN [raised |-> TRUE, called |-> 0, advice |-> NoAdvice]
    ELSE [raised |-> FALSE, called |-> 1,
          advice |-> IF resp.kind = "json"
                     THEN [none |-> FALSE, obj |-> resp.obj] ELSE NoAdvice]

\* print_advice: subscripts the four keys of a truthy advice
print_advice(advice) ==
    IF ~Truthy(advice) THEN "ok"
    ELSE IF Keys \subseteq DOMAIN advice.obj THEN "ok" ELSE "KeyError"

-----------------------------------------------------------------------------
(* Batch runner: one iteration of the for loop of run_analysis *)

MutAnalyzeWithoutData(sd) == TRUE

\* line 285: stock_data is not None and not stock_data.empty
have_data(sd) == sd.kind # "None" /\ ~sd.empty

\* outcomes of the INSERT (lines 50-58): executed, or an error that is caught
InsertOutcomes(d) == {"ok", "fail"}

Unused == "-"

\* asked: get_ai_advice was entered (line 298); called: the completion was
\* requested (line 212)
Locals(i, md, data, price, nw, fd, rk, advice, ins, asked, called, raised) ==
    [i |-> i, md |-> md, data |-> data, price |-> price, nw |-> nw, fd |-> fd, resp |-> rk,
     advice |-> advice, ins |-> ins, asked |-> asked, called |-> called,
     raised |-> raised]

NoLocals == Locals(0, Unused, Unused, 0, Unused, Unused, Unused, NoAdvice, Unused, 0, 0, FALSE)

\* the iteration that stops before news, fundamentals and completion are
\* requested
Stopped(i, md, sd, raised) ==
    Locals(i, md.kind, sd.kind, 0, Unused, Unused, Unused, NoAdvice, Unused, 0, 0, raised)

\* lines 279-314 for entry i: the store afterwards, the locals, whether an
\* exception left the iteration
iteration(i, d, md, nw, fd, resp, ins) ==
    LET e == stocks_to_analyze[i]
        stock_data == get_stock_data(md)
    IN  IF stock_data.kind = "raise"
        THEN [db |-> d, locals |-> Stopped(i, md, stock_data, TRUE)]
        ELSE IF have_data(stock_data)
        THEN LET current_price == stock_data.close
                 news == get_news_headlines(nw)
                 fundamentals == get_fundamental_data(fd)
                 requested == get_ai_advice(e.name, e.ticker, e.goal, e.avg_buy_price,
                                            stock_data, news.headlines,
                                            fundamentals.data, resp)
                 advice == requested.advice
             IN  IF news.raised \/ fundamentals.raised
                 THEN [db |-> d,
                       locals |-> Locals(i, md.kind, stock_data.kind, current_price,
                                         nw, fd, Unused, NoAdvice, Unused, 0, 0, TRUE)]
                 ELSE IF requested.raised
                 THEN [db |-> d,
                       locals |-> Locals(i, md.kind, stock_data.kind, current_price,
                                         nw, fd, Unused, NoAdvice, Unused,
                                         1, requested.called, TRUE)]
                 ELSE IF print_advice(advice) # "ok"
                 THEN [db |-> d,
                       locals |-> Locals(i, md.kind, stock_data.kind, current_price,
                                         nw, fd, resp.kind, advice, Unused,
                                         1, requested.called, TRUE)]
                 ELSE [db |-> save_stock_advice(d, e.name, e.ticker, current_price,
                                                advice, ins),
                       locals |-> Locals(i, md.kind, stock_data.kind, current_price,
                                         nw, fd, resp.kind, advice,
                                         IF Truthy(advice) THEN ins ELSE Unused,
                                         1, requested.called, FALSE)]
        ELSE [db |-> d, locals |-> Stopped(i, md, stock_data, FALSE)]

-----------------------------------------------------------------------------
(* Scheduler: schedule.every().day.at(t).do(run_analysis), run_pending *)

InstantsOfDay == {0, At0850, At1500}

\* the clock is observed at the instants that separate the scheduled times
NextInstant(t) ==
    CHOOSE u \in (t + 1)..(t + Day) :
        /\ (u % Day) \in InstantsOfDay
        /\ \A v \in (t + 1)..(u - 1) : (v % Day) \notin InstantsOfDay

MutNextRunSkipsADay(at, t) ==
    LET today == (t \div Day) * Day + at
    IN  IF today > t THEN today + Day ELSE today + 2 * Day

\* Job._schedule_next_run of a daily job: the first at-time after now
schedule_next_run(at, t) ==
    LET today == (t \div Day) * Day + at
    IN  IF today > t THEN today ELSE today + Day

\* Job.should_run
should_run(j) == now >= next_run[j]

\* sorted(runnable_jobs): Job.__lt__ compares next_run
SortedRunnable ==
    LET R == {j \in Jobs : should_run(j)}
    IN  CHOOSE s \in [1..Cardinality(R) -> R] :
            /\ \A a, b \in 1..Cardinality(R) : a # b => s[a] # s[b]
            /\ \A a, b \in 1..Cardinality(R) : a < b => next_run[s[a]] <= next_run[s[b]]

MutThreadedCall == "idle"

\* run_analysis is called synchronously (lines 331, 334): the loop does not
\* poll again before it returns
call_blocks == "running"

-----------------------------------------------------------------------------
(* The process *)

\* a row an earlier run of the program left in the table
PriorRow ==
    Row([exists |-> TRUE, rows |-> <<>>], stocks_to_analyze[3].name,
        stocks_to_analyze[3].ticker, PriceGap,
        [none |-> FALSE, obj |-> Object(Keys, "HOLD")])

\* stock_advisor.db when the process starts: no table yet, or the table of
\* an earlier run
InitialStores ==
    { [exists |-> FALSE, rows |-> <<>>], [exists |-> TRUE, rows |-> <<PriorRow>>] }

NoCalls == [i \in 1..NumStocks |-> 0]
NoCount == [j \in Jobs |-> 0]

Init ==
    /\ pc = "start"
    /\ depth = 0
    /\ cur = "none"
    /\ queue = <<>>
    /\ idx = 1
    /\ now \in InstantsOfDay
    /\ next_run = NoCount
    /\ db \in InitialStores
    /\ last = NoLocals
    /\ calls = NoCalls
    /\ passBase = Len(db.rows)
    /\ arrived = NoCount
    /\ started = NoCount
    /\ settled = NoCount

\* entry of run_analysis (lines 254-277)
BeginPass(who, d) ==
    /\ depth' = depth + 1
    /\ cur' = who
    /\ idx' = 1
    /\ calls' = NoCalls
    /\ passBase' = Len(d.rows)
    /\ last' = NoLocals
    /\ pc' = call_blocks

\* lines 322-331: initialise the store, register the two daily jobs, call
\* run_analysis once
Main ==
    /\ pc = "start"
    /\ db' = init_stock_database(db)
    /\ next_run' = [j \in Jobs |-> schedule_next_run(at_time(j), now)]
    /\ BeginPass("startup", db')
    /\ UNCHANGED <<queue, now, arrived, started, settled>>

\* inputs an iteration does not consume are not enumerated: news and
\* fundamentals are requested only with a frame in hand, the completion
\* only when get_ai_advice gets as far as line 212, the INSERT only for a
\* non-empty object
Consumed(md, S) == IF md.kind \in MarketFrames THEN S ELSE {CHOOSE x \in S : TRUE}
ConsumedResponse(md, fd, S) ==
    IF md.kind = "bars" /\ fd # "ok_int64" THEN S ELSE {CHOOSE x \in S : TRUE}
ConsumedInsert(md, fd, resp, d) ==
    IF md.kind = "bars" /\ fd # "ok_int64" /\ resp.kind = "json" /\ DOMAIN resp.obj # {}
    THEN InsertOutcomes(d) ELSE {"fail"}

\* one iteration of the for loop (lines 279-314), the external outcomes
\* drawn from MO (market data), NO (news), FO (fundamentals) and RO
\* (completion)
AnalyzeEntryOver(MO, NO, FO, RO) ==
    /\ depth > 0
    /\ pc # "crashed"
    /\ idx <= NumStocks
    /\ Len(db.rows) < MaxRows
    /\ \E md \in MO :
       \E nw \in Consumed(md, NO), fd \in Consumed(md, FO) :
       \E resp \in ConsumedResponse(md, fd, RO) :
       \E ins \in ConsumedInsert(md, fd, resp, db) :
          LET r == iteration(idx, db, md, nw, fd, resp, ins)
          IN  /\ db' = r.db
              /\ last' = r.locals
              /\ calls' = [calls EXCEPT ![idx] = @ + r.locals.called]
              /\ IF r.locals.raised
                 THEN pc' = "crashed" /\ idx' = idx
                 ELSE pc' = pc /\ idx' = idx + 1
    /\ UNCHANGED <<depth, cur, queue, now, next_run, passBase, arrived, started,
                   settled>>

AnalyzeEntry ==
    AnalyzeEntryOver(MarketOutcomes(stocks_to_analyze[idx]), FetchOutcomes,
                     FundamentalOutcomes, Responses)

\* the same iteration under the outcomes that decide what the scheduler
\* sees of a pass: a row stored or refused, or an exception that escapes
SchedMarket(e) ==
    { md \in MarketOutcomes(e) :
        \/ md.kind = "emptydata_noname"
        \/ md.kind = "bars" /\ md.close = e.avg_buy_price + PriceGap }
SchedResponses ==
    { r \in Responses :
        /\ r.kind = "json"
        /\ DOMAIN r.obj \in {Keys, {"decision"}}
        /\ r.obj["decision"] = "HOLD" }

AnalyzeEntrySched ==
    AnalyzeEntryOver(SchedMarket(stocks_to_analyze[idx]), {"ok"}, {"ok"}, SchedResponses)

\* lines 316-317 and the return to the caller; Job.run then reschedules the
\* job, and run_pending goes on with the next runnable job
FinishPass ==
    /\ depth > 0
    /\ pc # "crashed"
    /\ idx > NumStocks
    /\ depth' = depth - 1
    /\ next_run' = IF cur \in Jobs
                   THEN [next_run EXCEPT ![cur] = schedule_next_run(at_time(cur), now)]
                   ELSE next_run
    /\ pc' = IF queue # <<>> THEN "pending" ELSE "idle"
    /\ cur' = "none"
    /\ last' = NoLocals
    /\ calls' = NoCalls
    /\ passBase' = Len(db.rows)
    /\ settled' = IF cur \in Jobs THEN [settled EXCEPT ![cur] = arrived[cur]] ELSE settled
    /\ UNCHANGED <<queue, idx, now, db, arrived, started>>

\* line 334, schedule.run_pending: collect the runnable jobs, sorted
RunPending ==
    /\ pc = "idle"
    /\ \E j \in Jobs : should_run(j)
    /\ queue' = SortedRunnable
    /\ pc' = "pending"
    /\ UNCHANGED <<depth, cur, idx, now, next_run, db, last, calls, passBase,
                   arrived, started, settled>>

\* Scheduler._run_job, Job.run: call run_analysis for the next runnable job
StartJob ==
    /\ pc = "pending"
    /\ queue # <<>>
    /\ LET j == Head(queue)
       IN  /\ queue' = Tail(queue)
           /\ started' = [started EXCEPT ![j] = @ + 1]
           /\ settled' = [settled EXCEPT ![j] = arrived[j]]
           /\ BeginPass(j, db)
    /\ UNCHANGED <<now, next_run, db, arrived>>

\* the wall clock moves on to the next instant: at any point of a pass (no
\* external call has a timeout), and while the loop waits with no job due;
\* a waiting loop polls every second (line 335), so a job that is due is
\* run before the clock reaches the next instant, hours later
Tick ==
    /\ pc \in {"running", "idle"}
    /\ pc = "idle" /\ depth = 0 => \A j \in Jobs : ~should_run(j)
    /\ NextInstant(now) < MaxDays * Day
    /\ now' = NextInstant(now)
    /\ arrived' = [j \in Jobs |->
                     arrived[j] + IF now' % Day = at_time(j) THEN 1 ELSE 0]
    /\ UNCHANGED <<pc, depth, cur, queue, idx, next_run, db, last, calls, passBase,
                   started, settled>>

\* the whole program
Next ==
    \/ Main
    \/ AnalyzeEntry
    \/ FinishPass
    \/ RunPending
    \/ StartJob
    \/ Tick

Spec == Init /\ [][Next]_vars

\* the start-up pass under every external outcome, the clock standing still
NextPass ==
    \/ Main
    \/ AnalyzeEntry
    \/ FinishPass

SpecPass == Init /\ [][NextPass]_vars

\* the scheduler loop over MaxDays days
NextSched ==
    \/ Main
    \/ AnalyzeEntrySched
    \/ FinishPass
    \/ RunPending
    \/ StartJob
    \/ Tick

SpecSched == Init /\ [][NextSched]_vars

-----------------------------------------------------------------------------
(* Properties *)

Entry(i) == stocks_to_analyze[i]

\* rows appended for entry i in the pass in progress
RowsInPass(i) ==
    { k \in (passBase + 1)..Len(db.rows) : db.rows[k].ticker = Entry(i).ticker }

\* the loop has executed an iteration in the pass in progress
Visited == last.i # 0

\* advice is a JSON object of the Decision shape
IsDecision(advice) == ~advice.none /\ DOMAIN advice.obj = Keys

IsPrefix(s, t) == Len(s) <= Len(t) /\ \A k \in 1..Len(s) : s[k] = t[k]

\* the loop waits with no job due
CaughtUp == pc = "idle" /\ \A j \in Jobs : ~should_run(j)

\* C1: no error is process-fatal: no exception escapes run_analysis and
\* terminates the process, whatever the external calls return.
C1_NoErrorIsProcessFatal == pc # "crashed"

\* C2: for an entry whose goal forbids selling below cost and whose latest
\* close is below its average buy price, the decision get_ai_advice returns
\* for a response of the Decision shape, and the decision of the row stored
\* for it, is never SELL NOW.
C2_NeverSellBelowCost ==
    /\ (/\ Visited
        /\ GoalProtectsCost(Entry(last.i).goal)
        /\ last.data = "frame"
        /\ last.price < Entry(last.i).avg_buy_price
        /\ IsDecision(last.advice))
       => last.advice.obj["decision"] = "HOLD"
    /\ \A i \in 1..NumStocks : \A k \in RowsInPass(i) :
         (GoalProtectsCost(Entry(i).goal)
            /\ db.rows[k].current_price < Entry(i).avg_buy_price)
         => db.rows[k].decision # "SELL NOW"

\* C3: in a pass, at most one row is appended per watchlist entry.
C3_AtMostOneRecordPerEntry ==
    \A i \in 1..NumStocks : Cardinality(RowsInPass(i)) <= 1

\* C3 witness: on top of the row of an earlier run, a pass has stored a
\* row for each of the three entries.
C3_Witness ==
    /\ idx = NumStocks + 1
    /\ passBase = 1
    /\ Len(db.rows) = passBase + NumStocks
    /\ \A i \in 1..NumStocks : Cardinality(RowsInPass(i)) = 1

\* C4: when get_stock_data yields None (upstream error, empty frame, missing
\* close column), the iteration makes no completion call, appends no row,
\* lets no exception escape, and the loop goes on to the next entry.
C4_AbsentDataSkipsEntry ==
    /\ (Visited /\ last.md \in {"raise", "emptydata", "empty", "noclose"})
       => last.data = "None"
    /\ (Visited /\ last.data = "None")
       => /\ last.called = 0
          /\ calls[last.i] = 0
          /\ RowsInPass(last.i) = {}
          /\ ~last.raised
          /\ pc # "crashed"
          /\ idx = last.i + 1

\* C4 witness: the first entry was skipped for a missing close column and
\* the second entry went through the pipeline and was stored.
C4_Witness ==
    /\ last.i = 2
    /\ calls[1] = 0
    /\ Cardinality(RowsInPass(2)) = 1
    /\ RowsInPass(1) = {}

\* C5: with market data present get_ai_advice is called whether or not the
\* news and the fundamentals could be fetched; a failed fetch of either
\* does not keep it from requesting the completion (only a frame without a
\* datetime date column or a snapshot json.dumps rejects does); and when it
\* returns a Decision and the INSERT succeeds exactly one row is appended.
C5_NewsAndFundamentalsOptional ==
    (Visited /\ last.data = "frame")
    => /\ last.asked = 1
       /\ (last.md = "bars" /\ last.fd # "ok_int64")
          => (last.called = 1 /\ calls[last.i] = 1)
       /\ (IsDecision(last.advice) /\ last.ins = "ok")
          => Cardinality(RowsInPass(last.i)) = 1

\* C5 witness: news and fundamentals both failed, the completion was
\* requested and the row was stored.
C5_Witness ==
    /\ Visited
    /\ last.called = 1
    /\ last.nw = "fail"
    /\ last.fd = "fail"
    /\ Cardinality(RowsInPass(last.i)) = 1

\* C6: a failed completion call, a response that is not JSON, or a JSON
\* object missing one of the four keys is an absent Decision: no row, no
\* second completion call, and the loop goes on to the next entry.
C6_ParseFailureIsAbsent ==
    (/\ Visited
     /\ last.called = 1
     /\ \/ last.resp \in {"error", "text"}
        \/ last.resp = "json" /\ ~IsDecision(last.advice))
    => /\ RowsInPass(last.i) = {}
       /\ calls[last.i] = 1
       /\ pc # "crashed"
       /\ idx = last.i + 1

\* C7: a pass starts only when no pass is in progress, and not before the
\* previous pass has gone through the whole watchlist (all its store writes
\* done).
C7_PassesNeverOverlap ==
    [][depth' > depth => (depth = 0 /\ (pc = "start" \/ idx = NumStocks + 1))]_vars

\* C7 witness: both daily times were due at once; the pass of the first job
\* runs, the second job waits in run_pending, and an earlier pass of this
\* process has stored a row.
C7_Witness ==
    /\ depth = 1
    /\ cur = "08:50"
    /\ queue = <<"15:00">>
    /\ idx <= NumStocks
    /\ passBase >= 2

\* C8 as stated: every arrival of a scheduled time starts one pass for it,
\* so once the loop waits with no job due each job has started as many
\* passes as its time has arrived.
C8_EveryArrivalStartsItsOwnPass ==
    CaughtUp => \A j \in Jobs : started[j] = arrived[j]

\* C8 amended: the process starts with one pass, begun right after the store
\* is initialised and before any waiting; a job starts a pass only for an
\* arrival of its time that came after the job was last started or
\* rescheduled; and once the loop waits with no job due, every arrival has
\* either been followed by a pass of its job (arrivals of one time that pile
\* up before the job runs share one pass) or came while that job's own pass
\* was running (the job is then rescheduled past it).
C8_ArrivalsAreServed ==
    [][/\ pc = "start" => /\ pc' = "running"
                          /\ cur' = "startup"
                          /\ depth' = 1
                          /\ db'.exists
                          /\ now' = now
       /\ \A j \in Jobs :
            started'[j] # started[j]
            => /\ started'[j] = started[j] + 1
               /\ arrived[j] > settled[j]
               /\ cur' = j
               /\ pc = "pending"
       /\ (pc' = "idle" /\ \A j \in Jobs : now' < next_run'[j])
          => \A j \in Jobs : settled'[j] = arrived'[j]]_vars

\* C8 witness: 08:50 arrived twice while an earlier pass was running; the
\* first pass of its job has started and serves both arrivals.
C8_Witness ==
    /\ depth = 1
    /\ cur = "08:50"
    /\ arrived["08:50"] = 2
    /\ started["08:50"] = 1
    /\ settled["08:50"] = 2

\* C9 as stated: every get_ai_advice call that returns a parsed JSON object
\* appends exactly one row for the entry, carrying the object's four fields
\* and the latest close; and no row is appended without such a call.
C9_OneRowPerParsedObject ==
    /\ (Visited /\ last.called = 1 /\ ~last.advice.none)
       => /\ Cardinality(RowsInPass(last.i)) = 1
          /\ \A k \in RowsInPass(last.i) :
               /\ \A key \in Keys : db.rows[k][key] = Get(last.advice.obj, key)
               /\ db.rows[k].current_price = last.price
    /\ \A i \in 1..NumStocks : RowsInPass(i) # {} => calls[i] = 1

\* C9 amended: a get_ai_advice call appends a row exactly when it returns a
\* JSON object with all four keys and the INSERT succeeds, and then exactly
\* one, carrying the object's four fields and the latest close; an empty
\* object, an object missing a key, and a failed INSERT append nothing; and
\* no row is appended without a call in the same pass.
C9_OneRowPerStoredDecision ==
    /\ Visited
       => /\ Cardinality(RowsInPass(last.i)) =
               IF last.called = 1 /\ IsDecision(last.advice) /\ last.ins = "ok"
               THEN 1 ELSE 0
          /\ \A k \in RowsInPass(last.i) :
               /\ \A key \in Keys : db.rows[k][key] = last.advice.obj[key]
               /\ db.rows[k].current_price = last.price
               /\ db.rows[k].stock_name = Entry(last.i).name
    /\ \A i \in 1..NumStocks : RowsInPass(i) # {} => calls[i] = 1

\* C9 witness: a SELL NOW decision was returned and stored.
C9_Witness ==
    /\ Visited
    /\ IsDecision(last.advice)
    /\ last.advice.obj["decision"] = "SELL NOW"
    /\ Cardinality(RowsInPass(last.i)) = 1

\* C10: the store is append-only: initialising, appending, a failed append
\* and any number of passes keep every stored row, in place and unchanged;
\* initialising an existing table changes nothing.
C10_StoreIsAppendOnly ==
    [][/\ IsPrefix(db.rows, db'.rows)
       /\ db.exists => db'.exists
       /\ (pc = "start" /\ db.exists) => db' = db]_vars

\* C10 witness: the table of an earlier run has received a row in one pass
\* of this process and another row in a later pass.
C10_Witness ==
    /\ Len(db.rows) >= 3
    /\ db.rows[1] = PriorRow
    /\ passBase = 2

====
